---- MODULE Spec2Model ----
(***************************************************************************)
(* Crawl-and-aggregate pipeline of src/main.py: the Erome, Bunkr, Fapello  *)
(* and JPG-host listing coroutines, run against a static set of page       *)
(* responses (the variable web).  One behaviour runs one operation (op).   *)
(*                                                                         *)
(* A URL is a sequence of strings: its host followed by its path segments, *)
(* so that "https://h/a/b" is <<"h","a","b">>.  A root-relative reference  *)
(* "/a/b" has the empty host: <<"","a","b">>.  The empty sequence stands   *)
(* for None / a missing attribute.                                         *)
(***************************************************************************)
EXTENDS Integers, Sequences, FiniteSets, TLC

VARIABLES
    op,       \* the operation this behaviour runs
    input,    \* its argument
    web,      \* the responses of the remote source, per URL or page number
    pc,       \* the position in the coroutine
    outcome,  \* "running", "returned" or "raised"
    page,     \* the cursor: a page number, an index, or next_page_url
    acc,      \* the accumulator of the loop
    tasks,    \* the tasks of the gather in progress
    log,      \* every request issued, in order
    result,   \* the returned value
    inverted, \* history: a task finished before one created earlier
    active_connections,  \* the registry of WebSocket connections (line 22)
    peer,     \* per WebSocket, the client's end: "none", "open" or "closed"
    handler   \* per WebSocket, the position of its websocket_endpoint call

vars == <<op, input, web, pc, outcome, page, acc, tasks, log, result, inverted,
          active_connections, peer, handler>>

----------------------------------------------------------------------------
(* Generic helpers                                                         *)

Range(s) == {s[i] : i \in 1..Len(s)}

RECURSIVE Flatten(_)
Flatten(ss) == IF ss = <<>> THEN <<>> ELSE Head(ss) \o Flatten(Tail(ss))

(* list(S) for a Python set S: some enumeration of S, order unspecified.   *)
ListsOf(S) == {s \in [1..Cardinality(S) -> S] : Range(s) = S}

NoDup(s) == \A i, j \in 1..Len(s) : i # j => s[i] # s[j]

(* "/" + seg + "/" in url: an element of the URL with a slash on both      *)
(* sides, i.e. any but the last (the host follows the "//" of the scheme). *)
InPath(u, seg) == \E i \in 1..(Len(u) - 1) : u[i] = seg

(* "/thumb/" in url, and thumb_pattern.search(url)                         *)
thumb_pattern(u) == InPath(u, "thumb")

(* url.startswith(prefix + "/")                                            *)
StartsWith(u, p) == Len(u) > Len(p) /\ SubSeq(u, 1, Len(p)) = p

(* urljoin(base_url, ref) for an absolute or a root-relative ref.          *)
urljoin(base, ref) == IF ref[1] # "" THEN ref ELSE <<base[1]>> \o Tail(ref)

----------------------------------------------------------------------------
(* Asset URLs of the fixtures                                              *)

U1 == <<"cdn.example", "a.jpg">>
U2 == <<"cdn.example", "b.jpg">>
T1 == <<"cdn.example", "thumb", "a.jpg">>
RelU == <<"", "img", "c.jpg">>
RelT == <<"", "thumb", "c.jpg">>

----------------------------------------------------------------------------
(* Erome gallery: fetch_all_erome_image_urls                               *)

ErA1 == <<"www.erome.com", "a", "one">>
ErA2 == <<"www.erome.com", "a", "two">>
ErAlbums == {ErA1, ErA2}

(* A response to the GET of an album page: fails is TRUE when the request  *)
(* raises (connection reset, timeout) instead of answering, st is the      *)
(* status, final the URL after redirects, divs the data-src attribute of   *)
(* each div.img in document order (<<>>: no data-src).                     *)
ErAlbumResps ==
    { [fails |-> TRUE, st |-> 0, final |-> <<>>, divs |-> <<>>],
      [fails |-> FALSE, st |-> 404, final |-> ErA1, divs |-> <<U2>>],
      [fails |-> FALSE, st |-> 200, final |-> ErA1, divs |-> <<>>],
      [fails |-> FALSE, st |-> 200, final |-> ErA1, divs |-> <<U1, <<>>, RelT>>],
      [fails |-> FALSE, st |-> 200, final |-> <<"cdn.erome", "x">>, divs |-> <<U1, RelU, U1>>],
      [fails |-> FALSE, st |-> 200, final |-> ErA2, divs |-> <<T1, U2>>] }

(* lines 98-104: the list comprehension of fetch_image_urls                *)
RECURSIVE fetch_image_urls_parse(_, _)
fetch_image_urls_parse(base_url, divs) ==
    IF divs = <<>> THEN <<>>
    ELSE (IF Head(divs) # <<>> THEN <<urljoin(base_url, Head(divs))>> ELSE <<>>)
         \o fetch_image_urls_parse(base_url, Tail(divs))

(* The value a finished task holds: exc is TRUE when the coroutine raised. *)
Raised == [exc |-> TRUE, val |-> <<>>]
Returned(v) == [exc |-> FALSE, val |-> v]

(* fetch_image_urls: the status is not looked at; a failed request raises  *)
(* out of get_webpage_content.                                             *)
fetch_image_urls(r) ==
    IF r.fails THEN Raised
    ELSE Returned(fetch_image_urls_parse(r.final, r.divs))

(* asyncio.gather: every task is started, in the order of creation.       *)
Launch(refs) == [i \in 1..Len(refs) |-> [ref |-> refs[i], done |-> FALSE, out |-> Raised]]

(* Mutant of AllDone: the join waits for the first task only.              *)
FirstDone(ts) == \E i \in 1..Len(ts) : ts[i].done

(* The join of asyncio.gather: every task has finished.                    *)
AllDone(ts) == \A i \in 1..Len(ts) : ts[i].done

(* History only: task i finishes while a task created before it is pending. *)
Overtakes(ts, i) == inverted \/ \E j \in 1..(i - 1) : ~ts[j].done

(* line 110: the results that are lists, flattened in task order.          *)
all_image_urls(ts) ==
    Flatten([i \in 1..Len(ts) |-> IF ts[i].out.exc THEN <<>> ELSE ts[i].out.val])

(* Mutant of erome_return: the filtered list, returned without the set.    *)
erome_return_no_set(urls) == {SelectSeq(urls, LAMBDA u : ~thumb_pattern(u))}

(* line 111: list({url for url in all_image_urls if "/thumb/" not in url}) *)
erome_return(urls) == ListsOf({u \in Range(urls) : ~thumb_pattern(u)})

fetch_all_erome_image_urls_gather ==
    /\ op = "erome_gallery" /\ pc = "start"
    /\ tasks' = Launch(input)
    /\ log' = log \o input
    /\ pc' = "gather"
    /\ UNCHANGED <<op, input, web, active_connections, peer, handler, inverted, outcome, page, acc, result>>

fetch_image_urls_done(i) ==
    /\ op = "erome_gallery" /\ pc = "gather"
    /\ ~tasks[i].done
    /\ tasks' = [tasks EXCEPT ![i].done = TRUE,
                              ![i].out = fetch_image_urls(web.album[tasks[i].ref])]
    /\ inverted' = Overtakes(tasks, i)
    /\ UNCHANGED <<op, input, web, active_connections, peer, handler, pc, outcome, page, acc, log, result>>

fetch_all_erome_image_urls_return ==
    /\ op = "erome_gallery" /\ pc = "gather"
    /\ AllDone(tasks)
    /\ result' \in erome_return(all_image_urls(tasks))
    /\ pc' = "done"
    /\ outcome' = "returned"
    /\ UNCHANGED <<op, input, web, active_connections, peer, handler, inverted, page, acc, tasks, log>>

InitEromeGallery ==
    /\ op = "erome_gallery"
    /\ input \in {<<ErA1, ErA2>>, <<ErA2>>}
    /\ page = 1
    /\ acc = <<>>
    /\ web \in [album : [ErAlbums -> ErAlbumResps]]

----------------------------------------------------------------------------
(* Bunkr gallery: fetch_bunkr_gallery_images_from_albums                   *)

BkA1 == <<"bunkr.cr", "a", "one">>
BkA2 == <<"bunkr.cr", "a", "two">>
BkAlbums == {BkA1, BkA2}
BkL1 == <<"bunkr.cr", "f", "1">>
BkL2 == <<"bunkr.cr", "f", "2">>
BkLeafs == {BkL1, BkL2}
BkAssets == {U1, U2, T1}

(* An album page: hrefs are the href attributes of its anchors labelled    *)
(* "download", in document order.                                          *)
BkAlbumResps ==
    { [fails |-> TRUE, st |-> 0, hrefs |-> <<>>],
      [fails |-> FALSE, st |-> 404, hrefs |-> <<BkL2>>],
      [fails |-> FALSE, st |-> 200, hrefs |-> <<>>],
      [fails |-> FALSE, st |-> 200, hrefs |-> <<<<"", "f", "1">>, BkL2>>],
      [fails |-> FALSE, st |-> 200,
       hrefs |-> <<<<"", "f", "1">>, <<"other.host", "f", "9">>, BkL1>>] }

(* A leaf page: imgs are the src attributes of its img elements whose      *)
(* class contains "object-cover", in document order (<<>>: no src).        *)
BkLeafResps ==
    { [fails |-> TRUE, st |-> 0, imgs |-> <<>>],
      [fails |-> FALSE, st |-> 404, imgs |-> <<U2>>],
      [fails |-> FALSE, st |-> 200, imgs |-> <<>>],
      [fails |-> FALSE, st |-> 200, imgs |-> <<U1, U2>>],
      [fails |-> FALSE, st |-> 200, imgs |-> <<U2>>],
      [fails |-> FALSE, st |-> 200, imgs |-> <<T1>>] }

(* The ranged GET of an asset URL: it fails (timeout, network error) or    *)
(* answers with a status.                                                  *)
BkCheckResps ==
    { [fails |-> TRUE, st |-> 0],
      [fails |-> FALSE, st |-> 200],
      [fails |-> FALSE, st |-> 404] }

(* lines 169-175: the leaf links of an album page                          *)
RECURSIVE album_leaf_links(_)
album_leaf_links(hrefs) ==
    IF hrefs = <<>> THEN <<>>
    ELSE LET href == Head(hrefs)
         IN  (IF StartsWith(href, <<"", "f">>) THEN <<<<"bunkr.cr">> \o Tail(href)>>
              ELSE IF StartsWith(href, <<"bunkr.cr", "f">>) THEN <<href>>
              ELSE <<>>)
             \o album_leaf_links(Tail(hrefs))

(* get_image_links_from_album: session.get raises when the request fails.  *)
get_image_links_from_album(r) ==
    IF r.fails THEN Raised
    ELSE IF r.st # 200 THEN Returned(<<>>)
    ELSE Returned(album_leaf_links(r.hrefs))

(* get_image_url_from_link: the src of the first matching img, or None.    *)
get_image_url_from_link(r) ==
    IF r.fails THEN Raised
    ELSE IF r.st # 200 THEN Returned(<<>>)
    ELSE IF r.imgs # <<>> THEN Returned(Head(r.imgs))
    ELSE Returned(<<>>)

(* Mutant of validate_url: any answer keeps the url.                       *)
validate_url_any_status(url, r) ==
    IF r.fails THEN Returned(<<>>) ELSE Returned(url)

(* validate_url: the url when the status is 200, None otherwise; the       *)
(* except clause swallows a failed request.                                *)
validate_url(url, r) ==
    IF r.fails THEN Returned(<<>>)
    ELSE IF r.st = 200 THEN Returned(url)
    ELSE Returned(<<>>)

(* lines 209 and 212: [url for url in results if url is not None and not   *)
(* thumb_pattern.search(url)]                                              *)
RECURSIVE not_none_not_thumb(_)
not_none_not_thumb(ts) ==
    IF ts = <<>> THEN <<>>
    ELSE (IF Head(ts).out.val # <<>> /\ ~thumb_pattern(Head(ts).out.val)
          THEN <<Head(ts).out.val>> ELSE <<>>)
         \o not_none_not_thumb(Tail(ts))

(* line 213: list({url for url in validated_image_urls})                   *)
bunkr_return(urls) == ListsOf(Range(urls))

(* One iteration of the loop over albums (lines 204-207): the album page   *)
(* is awaited before the next one is requested; the leaf coroutines are    *)
(* created, not started.  An exception leaves the coroutine.               *)
bunkr_album_step ==
    /\ op = "bunkr_gallery" /\ pc = "start"
    /\ page <= Len(input)
    /\ LET url == input[page].url
           got == get_image_links_from_album(web.album[url])
       IN  /\ log' = Append(log, url)
           /\ IF got.exc
              THEN /\ pc' = "done" /\ outcome' = "raised"
                   /\ UNCHANGED <<page, acc>>
              ELSE /\ acc' = acc \o got.val
                   /\ page' = page + 1
                   /\ UNCHANGED <<pc, outcome>>
    /\ UNCHANGED <<op, input, web, active_connections, peer, handler, inverted, tasks, result>>

(* line 208: gather over the leaf coroutines                               *)
bunkr_gather_leafs ==
    /\ op = "bunkr_gallery" /\ pc = "start"
    /\ page > Len(input)
    /\ tasks' = Launch(acc)
    /\ log' = log \o acc
    /\ pc' = "leafs"
    /\ UNCHANGED <<op, input, web, active_connections, peer, handler, inverted, outcome, page, acc, result>>

(* A leaf task finishes.  gather has no return_exceptions: the first       *)
(* exception is propagated to the awaiting coroutine.                      *)
get_image_url_from_link_done(i) ==
    /\ op = "bunkr_gallery" /\ pc = "leafs"
    /\ ~tasks[i].done
    /\ LET got == get_image_url_from_link(web.leaf[tasks[i].ref])
       IN  /\ tasks' = [tasks EXCEPT ![i].done = TRUE, ![i].out = got]
           /\ IF got.exc
              THEN pc' = "done" /\ outcome' = "raised"
              ELSE UNCHANGED <<pc, outcome>>
    /\ inverted' = Overtakes(tasks, i)
    /\ UNCHANGED <<op, input, web, active_connections, peer, handler, page, acc, log, result>>

(* lines 209-211: the candidates, and gather over their validations        *)
bunkr_gather_validation ==
    /\ op = "bunkr_gallery" /\ pc = "leafs"
    /\ AllDone(tasks)
    /\ LET image_urls == not_none_not_thumb(tasks)
       IN  /\ tasks' = Launch(image_urls)
           /\ log' = log \o image_urls
    /\ pc' = "validate"
    /\ UNCHANGED <<op, input, web, active_connections, peer, handler, inverted, outcome, page, acc, result>>

validate_url_done(i) ==
    /\ op = "bunkr_gallery" /\ pc = "validate"
    /\ ~tasks[i].done
    /\ LET got == validate_url(tasks[i].ref, web.asset[tasks[i].ref])
       IN  /\ tasks' = [tasks EXCEPT ![i].done = TRUE, ![i].out = got]
           /\ IF got.exc
              THEN pc' = "done" /\ outcome' = "raised"
              ELSE UNCHANGED <<pc, outcome>>
    /\ inverted' = Overtakes(tasks, i)
    /\ UNCHANGED <<op, input, web, active_connections, peer, handler, page, acc, log, result>>

(* lines 212-213                                                           *)
fetch_bunkr_gallery_images_from_albums_return ==
    /\ op = "bunkr_gallery" /\ pc = "validate"
    /\ AllDone(tasks)
    /\ result' \in bunkr_return(not_none_not_thumb(tasks))
    /\ pc' = "done"
    /\ outcome' = "returned"
    /\ UNCHANGED <<op, input, web, active_connections, peer, handler, inverted, page, acc, tasks, log>>

InitBunkrGallery ==
    /\ op = "bunkr_gallery"
    /\ input = <<[url |-> BkA1, title |-> "one"], [url |-> BkA2, title |-> "two"]>>
    /\ page = 1
    /\ acc = <<>>
    /\ web \in [album : [BkAlbums -> BkAlbumResps],
                leaf : [BkLeafs -> BkLeafResps],
                asset : [BkAssets -> BkCheckResps]]
    /\ web.asset[T1] = [fails |-> FALSE, st |-> 200]

----------------------------------------------------------------------------
(* Fapello: fetch_fapello_album_media.  The album URL ends in a slash,     *)
(* which is left out of its sequence.                                      *)

FpAlbum == <<"fapello.com", "alice">>
FpP1 == <<"fapello.com", "alice", "1", "">>
FpP2 == <<"fapello.com", "alice", "2">>
FpPages == {FpAlbum, FpP1, FpP2}
F1 == <<"fapello.com", "content", "a", "alice", "1.jpg">>
F2 == <<"fapello.com", "content", "a", "alice", "2.jpg">>
FT == <<"fapello.com", "content", "alice", "thumb", "1.jpg">>
FBob == <<"fapello.com", "content", "b", "bob", "1.jpg">>
FOff == <<"cdn.example", "alice", "3.jpg">>
V1 == <<"cdn.fapello", "alice", "v.mp4">>
VBob == <<"cdn.fapello", "bob", "v.mp4">>
Digits == {"1", "2"}

Img(s, d) == [src |-> s, data_src |-> d]

(* A page: hrefs of its anchors, its img elements and the src of its       *)
(* source elements of type video/mp4, each in document order.              *)
FpResps ==
    { [fails |-> TRUE, st |-> 0, final |-> <<>>, hrefs |-> <<>>, imgs |-> <<>>, videos |-> <<>>],
      [fails |-> FALSE, st |-> 404, final |-> FpAlbum, hrefs |-> <<FpP1>>,
       imgs |-> <<Img(F2, <<>>)>>, videos |-> <<V1>>],
      [fails |-> FALSE, st |-> 200, final |-> FpAlbum, hrefs |-> <<<<"fapello.com", "bob", "1">>>>,
       imgs |-> <<Img(F1, <<>>), Img(<<>>, F1), Img(<<>>, <<>>)>>, videos |-> <<V1>>],
      [fails |-> FALSE, st |-> 200, final |-> FpAlbum,
       hrefs |-> <<<<"", "alice", "1", "">>, FpP2, FpP1, <<"fapello.com", "alice", "about">>>>,
       imgs |-> <<Img(F1, F2), Img(FT, <<>>), Img(FBob, <<>>)>>, videos |-> <<V1, V1, VBob>>],
      [fails |-> FALSE, st |-> 200, final |-> FpAlbum, hrefs |-> <<FpP2>>,
       imgs |-> <<Img(FOff, <<>>), Img(<<>>, F2)>>, videos |-> <<<<"", "alice", "v.mp4">>>>] }

(* lines 243-248: the first path segment of the album URL ("": none)       *)
fapello_username(album_url) ==
    IF Len(album_url) >= 2 THEN album_url[2] ELSE ""

(* re.search(r'/\d+/?$', full_href)                                        *)
EndsNumeric(u) ==
    \/ Len(u) >= 2 /\ u[Len(u)] \in Digits
    \/ Len(u) >= 3 /\ u[Len(u)] = "" /\ u[Len(u) - 1] \in Digits

(* lines 260-265                                                           *)
RECURSIVE fapello_links(_, _, _)
fapello_links(album_url, base_url, hrefs) ==
    IF hrefs = <<>> THEN <<>>
    ELSE LET full_href == urljoin(base_url, Head(hrefs))
         IN  (IF StartsWith(full_href, album_url) /\ EndsNumeric(full_href)
              THEN <<full_href>> ELSE <<>>)
             \o fapello_links(album_url, base_url, Tail(hrefs))

(* lines 225-228                                                           *)
RECURSIVE fapello_page_images(_, _)
fapello_page_images(imgs, username) ==
    IF imgs = <<>> THEN <<>>
    ELSE LET img == Head(imgs)
             img_url == IF img.src # <<>> THEN img.src ELSE img.data_src
         IN  (IF /\ img_url # <<>>
                 /\ StartsWith(img_url, <<"fapello.com", "content">>)
                 /\ InPath(img_url, username)
              THEN <<img_url>> ELSE <<>>)
             \o fapello_page_images(Tail(imgs), username)

(* lines 229-234                                                           *)
RECURSIVE fapello_page_videos(_, _)
fapello_page_videos(videos, username) ==
    IF videos = <<>> THEN <<>>
    ELSE (IF Head(videos)[1] # "" /\ InPath(Head(videos), username)
          THEN <<Head(videos)>> ELSE <<>>)
         \o fapello_page_videos(Tail(videos), username)

Media(i, v) == [images |-> i, videos |-> v]

(* fetch_fapello_page_media: every exception is caught.                    *)
fetch_fapello_page_media(r, username) ==
    IF r.fails THEN Returned(Media(<<>>, <<>>))
    ELSE IF r.st # 200 THEN Returned(Media(<<>>, <<>>))
    ELSE Returned(Media(fapello_page_images(r.imgs, username),
                        fapello_page_videos(r.videos, username)))

(* lines 272-275: the results that are dicts, merged in task order         *)
fapello_merge(ts) ==
    Media(Flatten([i \in 1..Len(ts) |-> IF ts[i].out.exc THEN <<>> ELSE ts[i].out.val.images]),
          Flatten([i \in 1..Len(ts) |-> IF ts[i].out.exc THEN <<>> ELSE ts[i].out.val.videos]))

(* lines 276-277: list(set(...)) of each list                              *)
fapello_return(media) ==
    {Media(i, v) : i \in ListsOf(Range(media.images)), v \in ListsOf(Range(media.videos))}

(* lines 242-247: no username in the album URL                             *)
fapello_no_username ==
    /\ op = "fapello" /\ pc = "start"
    /\ fapello_username(input) = ""
    /\ result' = Media(<<>>, <<>>)
    /\ pc' = "done" /\ outcome' = "returned"
    /\ UNCHANGED <<op, input, web, active_connections, peer, handler, inverted, page, acc, tasks, log>>

(* lines 255-271: the main page is fetched (outside any try), its sub-page *)
(* links are collected and one task per link is started.                   *)
fapello_main_page ==
    /\ op = "fapello" /\ pc = "start"
    /\ fapello_username(input) # ""
    /\ LET r == web.page[input]
       IN  IF r.fails
           THEN /\ pc' = "done" /\ outcome' = "raised"
                /\ log' = Append(log, input)
                /\ UNCHANGED <<tasks, result>>
           ELSE IF r.st # 200
           THEN /\ pc' = "done" /\ outcome' = "returned"
                /\ result' = Media(<<>>, <<>>)
                /\ log' = Append(log, input)
                /\ UNCHANGED tasks
           ELSE \E links \in ListsOf(Range(fapello_links(input, r.final, r.hrefs))) :
                    LET refs == IF links = <<>> THEN <<input>> ELSE links
                    IN  /\ tasks' = Launch(refs)
                        /\ log' = <<input>> \o refs
                        /\ pc' = "gather"
                        /\ UNCHANGED <<outcome, result>>
    /\ UNCHANGED <<op, input, web, active_connections, peer, handler, inverted, page, acc>>

fetch_fapello_page_media_done(i) ==
    /\ op = "fapello" /\ pc = "gather"
    /\ ~tasks[i].done
    /\ tasks' = [tasks EXCEPT ![i].done = TRUE,
                              ![i].out = fetch_fapello_page_media(web.page[tasks[i].ref],
                                                                  fapello_username(input))]
    /\ inverted' = Overtakes(tasks, i)
    /\ UNCHANGED <<op, input, web, active_connections, peer, handler, pc, outcome, page, acc, log, result>>

fetch_fapello_album_media_return ==
    /\ op = "fapello" /\ pc = "gather"
    /\ AllDone(tasks)
    /\ result' \in fapello_return(fapello_merge(tasks))
    /\ pc' = "done" /\ outcome' = "returned"
    /\ UNCHANGED <<op, input, web, active_connections, peer, handler, inverted, page, acc, tasks, log>>

InitFapello ==
    /\ op = "fapello"
    /\ input \in {FpAlbum, <<"fapello.com">>}
    /\ page = 1
    /\ acc = <<>>
    /\ web \in [page : [FpPages -> FpResps]]

----------------------------------------------------------------------------
(* JPG-host: extract_jpg5_album_media_urls                                 *)

J1 == <<"jpg5.su", "a", "x">>
J2 == <<"jpg5.su", "a", "x", "2">>
J3 == <<"jpg5.su", "a", "x", "3">>
JpPages == {J1, J2, J3}
G1 == <<"simp.jpg5.su", "a.jpg">>
G2 == <<"simp.jpg5.su", "b.jpg">>
G3 == <<"simp.jpg5.su", "c.jpg">>
GT == <<"simp.jpg5.su", "thumb", "t.jpg">>

(* A page: imgs are the src attributes of its img elements, next the href  *)
(* of its a[data-pagination=next] (<<>>: no such anchor, or no href).      *)
JpResps ==
    { [fails |-> TRUE, st |-> 0, imgs |-> <<>>, next |-> <<>>],
      [fails |-> FALSE, st |-> 404, imgs |-> <<G3>>, next |-> J2] }
    \cup { [fails |-> FALSE, st |-> 200, imgs |-> i, next |-> n] :
             i \in {<<>>, <<G1, G2, G1>>, <<G1>>, <<G3, GT, U1>>},
             n \in {<<>>, J1, <<"", "a", "x", "2">>, J3} }

(* album_url.rstrip('/')                                                   *)
RECURSIVE rstrip(_)
rstrip(u) ==
    IF Len(u) > 1 /\ u[Len(u)] = "" THEN rstrip(SubSeq(u, 1, Len(u) - 1)) ELSE u

(* "jpg5.su" in src: an element of the URL holding that substring          *)
jpg5_marker(u) == \E i \in 1..Len(u) : u[i] \in {"jpg5.su", "simp.jpg5.su"}

(* line 292                                                                *)
current_page_media(imgs) == {u \in Range(imgs) : jpg5_marker(u)}

(* lines 301-303                                                           *)
jpg5_next_url(href) == IF href[1] # "" THEN href ELSE <<"jpg5.su">> \o Tail(href)

(* Mutant of jpg5_stalled: the growth of the set is not looked at.         *)
jpg5_never_stalled(before, after) == FALSE

(* lines 295-298: the walker stops when the merge adds nothing             *)
jpg5_stalled(before, after) == Cardinality(after) = Cardinality(before)

(* One iteration of the while loop (lines 285-305); "return" is the break. *)
jpg5_step ==
    /\ op = "jpg5" /\ pc = "start"
    /\ page # <<>>
    /\ log' = Append(log, page)
    /\ LET r == web.page[page]
           media == current_page_media(r.imgs)
       IN  IF r.fails
           THEN /\ pc' = "done" /\ outcome' = "raised"
                /\ UNCHANGED <<page, acc>>
           ELSE IF r.st # 200 \/ media = {}
           THEN /\ pc' = "return"
                /\ UNCHANGED <<page, acc, outcome>>
           ELSE /\ acc' = acc \cup media
                /\ IF jpg5_stalled(acc, acc') \/ r.next = <<>>
                   THEN pc' = "return" /\ UNCHANGED page
                   ELSE page' = jpg5_next_url(r.next) /\ UNCHANGED pc
                /\ UNCHANGED outcome
    /\ UNCHANGED <<op, input, web, active_connections, peer, handler, inverted, tasks, result>>

(* line 306                                                                *)
extract_jpg5_album_media_urls_return ==
    /\ op = "jpg5" /\ pc = "return"
    /\ result' \in ListsOf(acc)
    /\ pc' = "done" /\ outcome' = "returned"
    /\ UNCHANGED <<op, input, web, active_connections, peer, handler, inverted, page, acc, tasks, log>>

InitJpg5 ==
    /\ op = "jpg5"
    /\ input = J1 \o <<"">>
    /\ web \in [page : [JpPages -> JpResps]]
    /\ page = rstrip(input)
    /\ acc = {}

----------------------------------------------------------------------------
(* Erome search: fetch_all_album_pages_by_username                         *)

max_pages == 10
LastPage == 3

Anchor(h, c) == [href |-> h, cls |-> c]

(* A search page: text is FALSE for an empty body, anchors are its anchor  *)
(* elements in document order.                                             *)
ErSearchResps ==
    { [fails |-> TRUE, st |-> 0, text |-> FALSE, anchors |-> <<>>],
      [fails |-> FALSE, st |-> 404, text |-> TRUE, anchors |-> <<Anchor(ErA2, "album-link")>>],
      [fails |-> FALSE, st |-> 200, text |-> FALSE, anchors |-> <<>>],
      [fails |-> FALSE, st |-> 200, text |-> TRUE,
       anchors |-> <<Anchor(ErA1, "nav"), Anchor(<<"www.erome.com", "explore">>, "album-link")>>],
      [fails |-> FALSE, st |-> 200, text |-> TRUE,
       anchors |-> <<Anchor(ErA1, "album-link"), Anchor(ErA1, "album-link")>>],
      [fails |-> FALSE, st |-> 200, text |-> TRUE,
       anchors |-> <<Anchor(ErA2, "album-link"), Anchor(<<>>, "album-link")>>] }

(* What the source answers for every page after LastPage.                  *)
ErTailResps ==
    { [fails |-> FALSE, st |-> 200, text |-> TRUE, anchors |-> <<Anchor(ErA1, "nav")>>],
      [fails |-> FALSE, st |-> 200, text |-> TRUE, anchors |-> <<Anchor(ErA2, "album-link")>>] }

ErSearchAt(p) == IF p <= LastPage THEN web.search[p] ELSE web.tail

(* extract_album_links, before list(links)                                 *)
extract_album_links(anchors) ==
    {a.href : a \in {b \in Range(anchors) :
                        /\ b.cls = "album-link"
                        /\ b.href # <<>>
                        /\ StartsWith(b.href, <<"www.erome.com", "a">>)}}

(* lines 82-83: the break of the walker                                    *)
erome_search_break(r) == r.st # 200 \/ ~r.text

(* One iteration of the for loop (lines 79-86); "return" is the break.     *)
(* A cursor that skips a page.                                             *)
advance_page_by_two(p) == p + 2

(* The step of the page cursor: range(1, max_pages + 1) at line 79 and     *)
(* page += 1 at line 144.                                                  *)
advance_page(p) == p + 1

erome_search_step ==
    /\ op = "erome_albums" /\ pc = "start"
    /\ page <= max_pages
    /\ log' = Append(log, page)
    /\ LET r == ErSearchAt(page)
       IN  IF r.fails
           THEN /\ pc' = "done" /\ outcome' = "raised"
                /\ UNCHANGED <<page, acc>>
           ELSE IF erome_search_break(r)
           THEN /\ pc' = "return"
                /\ UNCHANGED <<page, acc, outcome>>
           ELSE /\ acc' = acc \cup extract_album_links(r.anchors)
                /\ page' = advance_page(page)
                /\ UNCHANGED <<pc, outcome>>
    /\ UNCHANGED <<op, input, web, active_connections, peer, handler, inverted, tasks, result>>

(* line 87, after the break or after page max_pages                        *)
fetch_all_album_pages_by_username_return ==
    /\ op = "erome_albums"
    /\ pc = "return" \/ (pc = "start" /\ page > max_pages)
    /\ result' \in ListsOf(acc)
    /\ pc' = "done" /\ outcome' = "returned"
    /\ UNCHANGED <<op, input, web, active_connections, peer, handler, inverted, page, acc, tasks, log>>

InitEromeAlbums ==
    /\ op = "erome_albums"
    /\ input = "alice"
    /\ web \in [search : [1..LastPage -> ErSearchResps], tail : ErTailResps]
    /\ page = 1
    /\ acc = {}

----------------------------------------------------------------------------
(* Bunkr search: get_all_album_links_from_search                           *)

(* A search page: hrefs of its anchors and texts of its span.album-title   *)
(* elements, in document order; next holds the page numbers n for which    *)
(* it has an anchor of class "btn btn-sm btn-main" to ?search=..&page=n.   *)
BkSearchBodies ==
    { [fails |-> TRUE, st |-> 0, hrefs |-> <<>>, titles |-> <<>>, next |-> {}],
      [fails |-> FALSE, st |-> 404, hrefs |-> <<BkA1>>, titles |-> <<"one">>, next |-> {}],
      [fails |-> FALSE, st |-> 200, hrefs |-> <<>>, titles |-> <<>>, next |-> {}],
      [fails |-> FALSE, st |-> 200, hrefs |-> <<BkA1>>, titles |-> <<"one">>, next |-> {}],
      [fails |-> FALSE, st |-> 200, hrefs |-> <<BkA1, <<"bunkr.cr", "about">>, BkA2>>,
       titles |-> <<"one", "two">>, next |-> {}],
      [fails |-> FALSE, st |-> 200, hrefs |-> <<BkA2, BkA1>>, titles |-> <<"two">>, next |-> {}] }

(* The source has pages 1..LastPage and answers 404 for any other.         *)
BkNoPage == [fails |-> FALSE, st |-> 404, hrefs |-> <<>>, titles |-> <<>>, next |-> {}]

BkSearchAt(p) == IF p <= LastPage THEN web.search[p] ELSE BkNoPage

(* parse_links_and_titles: the hrefs matching ^https://bunkr\.cr/a/.*      *)
parse_links(hrefs) ==
    SelectSeq(hrefs, LAMBDA h : StartsWith(h, <<"bunkr.cr", "a">>))

Min(a, b) == IF a < b THEN a ELSE b

(* Mutant of zip_albums: the titles are paired from the last to the first. *)
zip_albums_reversed(links, titles) ==
    [i \in 1..Min(Len(links), Len(titles)) |->
        [url |-> links[i], title |-> titles[Min(Len(links), Len(titles)) + 1 - i]]]

(* lines 124-127: zip(links, titles)                                       *)
zip_albums(links, titles) ==
    [i \in 1..Min(Len(links), Len(titles)) |-> [url |-> links[i], title |-> titles[i]]]

(* get_album_links_from_search                                             *)
get_album_links_from_search(r) ==
    IF r.fails THEN Raised
    ELSE IF r.st # 200 THEN Returned(<<>>)
    ELSE Returned(zip_albums(parse_links(r.hrefs), r.titles))

(* Mutant of has_next_page: any pagination button counts as the control.  *)
has_any_page_button(r, p) == r.next # {} \/ r.titles # <<>>

(* lines 141-142: the next-page control of page p                          *)
has_next_page(r, p) == (p + 1) \in r.next

(* lines 133-136: the first request of an iteration                        *)
bunkr_search_albums ==
    /\ op = "bunkr_albums" /\ pc = "start"
    /\ log' = Append(log, page)
    /\ LET got == get_album_links_from_search(BkSearchAt(page))
       IN  IF got.exc
           THEN /\ pc' = "done" /\ outcome' = "raised"
                /\ UNCHANGED acc
           ELSE IF got.val = <<>>
           THEN /\ pc' = "return"
                /\ UNCHANGED <<acc, outcome>>
           ELSE /\ acc' = acc \o got.val
                /\ pc' = "next"
                /\ UNCHANGED outcome
    /\ UNCHANGED <<op, input, web, active_connections, peer, handler, inverted, page, tasks, result>>

(* lines 137-144: the second request of the same page; its status is not   *)
(* looked at.                                                              *)
bunkr_search_next ==
    /\ op = "bunkr_albums" /\ pc = "next"
    /\ log' = Append(log, page)
    /\ LET r == BkSearchAt(page)
       IN  IF r.fails
           THEN /\ pc' = "done" /\ outcome' = "raised"
                /\ UNCHANGED page
           ELSE IF ~has_next_page(r, page)
           THEN /\ pc' = "return"
                /\ UNCHANGED <<page, outcome>>
           ELSE /\ page' = advance_page(page)
                /\ pc' = "start"
                /\ UNCHANGED outcome
    /\ UNCHANGED <<op, input, web, active_connections, peer, handler, inverted, acc, tasks, result>>

(* line 145                                                                *)
get_all_album_links_from_search_return ==
    /\ op = "bunkr_albums" /\ pc = "return"
    /\ result' = acc
    /\ pc' = "done" /\ outcome' = "returned"
    /\ UNCHANGED <<op, input, web, active_connections, peer, handler, inverted, page, acc, tasks, log>>

InitBunkrAlbums ==
    /\ op = "bunkr_albums"
    /\ input = "alice"
    /\ \E b \in [1..LastPage -> BkSearchBodies], n \in [1..LastPage -> BOOLEAN] :
          web = [search |-> [p \in 1..LastPage |->
                    [b[p] EXCEPT !.next = IF n[p] /\ b[p].st = 200 THEN {p + 1} ELSE {}]]]
    /\ page = 1
    /\ acc = <<>>

----------------------------------------------------------------------------
(* WebSocket live stats: websocket_endpoint and broadcast_stats            *)

Sockets == {"w1", "w2"}

(* The texts a client sends at most.                                       *)
MaxTexts == 1

(* A websocket_endpoint call that has not begun. pc is "idle", "broadcast" *)
(* (inside broadcast_stats, pending the connections still to be sent to,   *)
(* after the position to go on at), "receive" (awaiting receive_text),     *)
(* "ended" or "KeyError".                                                  *)
NoHandler == [pc |-> "idle", pending |-> <<>>, after |-> "receive", texts |-> 0]

(* lines 410-412: broadcast_stats begins with list(active_connections)     *)
broadcast_stats(h, snapshot, after) ==
    [h EXCEPT !.pc = "broadcast", !.pending = snapshot, !.after = after]

(* lines 420-422: accept, register, begin the first broadcast              *)
websocket_accept(w) ==
    /\ op = "ws" /\ peer[w] = "none"
    /\ peer' = [peer EXCEPT ![w] = "open"]
    /\ active_connections' = active_connections \cup {w}
    /\ \E snapshot \in ListsOf(active_connections') :
          handler' = [handler EXCEPT ![w] = broadcast_stats(handler[w], snapshot, "receive")]
    /\ UNCHANGED <<op, input, web, pc, outcome, page, acc, tasks, log, result, inverted>>

(* The client closes its end of the connection.                            *)
client_close(w) ==
    /\ op = "ws" /\ peer[w] = "open"
    /\ peer' = [peer EXCEPT ![w] = "closed"]
    /\ UNCHANGED <<op, input, web, pc, outcome, page, acc, tasks, log, result, inverted,
                   active_connections, handler>>

(* lines 412-416: one turn of the loop of broadcast_stats. send_text to a  *)
(* client that has closed is delivered nowhere or raises; if it raises the *)
(* connection is discarded.                                                *)
connection_send_text(w) ==
    /\ op = "ws" /\ handler[w].pc = "broadcast" /\ handler[w].pending # <<>>
    /\ handler' = [handler EXCEPT ![w].pending = Tail(handler[w].pending)]
    /\ LET connection == Head(handler[w].pending)
       IN  \/ UNCHANGED active_connections
           \/ /\ peer[connection] = "closed"
              /\ active_connections' = active_connections \ {connection}
    /\ UNCHANGED <<op, input, web, pc, outcome, page, acc, tasks, log, result, inverted,
                   peer>>

(* line 412, the list is exhausted: broadcast_stats returns                *)
broadcast_stats_return(w) ==
    /\ op = "ws" /\ handler[w].pc = "broadcast" /\ handler[w].pending = <<>>
    /\ handler' = [handler EXCEPT ![w].pc = handler[w].after]
    /\ UNCHANGED <<op, input, web, pc, outcome, page, acc, tasks, log, result, inverted,
                   active_connections, peer>>

(* lines 425-426: receive_text returns a text of the client                *)
websocket_receive_text(w) ==
    /\ op = "ws" /\ handler[w].pc = "receive" /\ peer[w] = "open"
    /\ handler[w].texts < MaxTexts
    /\ LET h == [handler[w] EXCEPT !.texts = handler[w].texts + 1]
       IN  \E snapshot \in ListsOf(active_connections) :
              handler' = [handler EXCEPT ![w] = broadcast_stats(h, snapshot, "receive")]
    /\ UNCHANGED <<op, input, web, pc, outcome, page, acc, tasks, log, result, inverted,
                   active_connections, peer>>

(* lines 427-429: receive_text raises WebSocketDisconnect; set.remove      *)
(* raises KeyError for an element that is not in the set.                  *)
websocket_disconnect(w) ==
    /\ op = "ws" /\ handler[w].pc = "receive" /\ peer[w] = "closed"
    /\ IF w \in active_connections
       THEN /\ active_connections' = active_connections \ {w}
            /\ \E snapshot \in ListsOf(active_connections') :
                  handler' = [handler EXCEPT ![w] = broadcast_stats(handler[w], snapshot, "ended")]
       ELSE /\ handler' = [handler EXCEPT ![w].pc = "KeyError"]
            /\ UNCHANGED active_connections
    /\ UNCHANGED <<op, input, web, pc, outcome, page, acc, tasks, log, result, inverted,
                   peer>>

InitWebSocket ==
    /\ op = "ws"
    /\ input = <<>>
    /\ web = <<>>
    /\ page = 0
    /\ acc = {}

----------------------------------------------------------------------------
Init ==
    /\ pc = "start" /\ outcome = "running"
    /\ tasks = <<>> /\ log = <<>> /\ result = <<>> /\ inverted = FALSE
    /\ active_connections = {}
    /\ peer = [w \in Sockets |-> "none"]
    /\ handler = [w \in Sockets |-> NoHandler]
    /\ \/ InitEromeGallery
       \/ InitBunkrGallery
       \/ InitFapello
       \/ InitJpg5
       \/ InitEromeAlbums
       \/ InitBunkrAlbums
       \/ InitWebSocket

Next ==
    \/ fetch_all_erome_image_urls_gather
    \/ \E i \in 1..Len(tasks) : fetch_image_urls_done(i)
    \/ fetch_all_erome_image_urls_return
    \/ bunkr_album_step
    \/ bunkr_gather_leafs
    \/ \E i \in 1..Len(tasks) : get_image_url_from_link_done(i)
    \/ bunkr_gather_validation
    \/ \E i \in 1..Len(tasks) : validate_url_done(i)
    \/ fetch_bunkr_gallery_images_from_albums_return
    \/ fapello_no_username
    \/ fapello_main_page
    \/ \E i \in 1..Len(tasks) : fetch_fapello_page_media_done(i)
    \/ fetch_fapello_album_media_return
    \/ jpg5_step
    \/ extract_jpg5_album_media_urls_return
    \/ erome_search_step
    \/ fetch_all_album_pages_by_username_return
    \/ bunkr_search_albums
    \/ bunkr_search_next
    \/ get_all_album_links_from_search_return
    \/ \E w \in Sockets : websocket_accept(w)
    \/ \E w \in Sockets : client_close(w)
    \/ \E w \in Sockets : connection_send_text(w)
    \/ \E w \in Sockets : broadcast_stats_return(w)
    \/ \E w \in Sockets : websocket_receive_text(w)
    \/ \E w \in Sockets : websocket_disconnect(w)

Spec == Init /\ [][Next]_vars
----------------------------------------------------------------------------
(* Properties                                                              *)

Returned_ == outcome = "returned"
AssetOps == {"erome_gallery", "bunkr_gallery", "fapello", "jpg5"}
FanOutOps == {"erome_gallery", "bunkr_gallery", "fapello"}
WalkerOps == {"erome_albums", "bunkr_albums", "jpg5"}

(* The asset URLs of the returned value of an asset-listing operation.     *)
ReturnedAssets ==
    IF op = "fapello" THEN Range(result.images) \cup Range(result.videos)
    ELSE Range(result)

(* C1: for every asset-listing operation (Erome, Bunkr, Fapello, JPG-host) *)
(* no URL containing "/thumb/" is among the candidates handed to           *)
(* validation or in the returned asset list.                               *)
C1_ThumbnailExclusion ==
    op \in AssetOps =>
        /\ (op = "bunkr_gallery" /\ pc = "validate") =>
               \A i \in 1..Len(tasks) : ~thumb_pattern(tasks[i].ref)
        /\ Returned_ => \A u \in ReturnedAssets : ~thumb_pattern(u)

(* C2: the list returned by each aggregation operation holds every URL at  *)
(* most once (for Fapello: each of its images and videos lists).           *)
C2_Deduplication ==
    (op \in AssetOps /\ Returned_) =>
        IF op = "fapello" THEN NoDup(result.images) /\ NoDup(result.videos)
        ELSE NoDup(result)

(* C2 witness: an Erome aggregation returned a non-empty list although two *)
(* different albums yielded the same image URL.                            *)
C2_Witness ==
    /\ op = "erome_gallery" /\ Returned_ /\ result # <<>>
    /\ \E i, j \in 1..Len(tasks) :
          /\ i # j /\ ~tasks[i].out.exc /\ ~tasks[j].out.exc
          /\ Range(tasks[i].out.val) \cap Range(tasks[j].out.val) \cap Range(result) # {}
(* A fetch succeeded: the request answered, with status 200.               *)
Ok(r) == ~r.fails /\ r.st = 200

(* The leaf links of the Bunkr albums whose page is served.                *)
BkServedLeafs ==
    UNION {Range(album_leaf_links(web.album[a.url].hrefs)) :
             a \in {b \in Range(input) : Ok(web.album[b.url])}}

(* What the references whose fetches succeed yield, per fan-out.           *)
SucceededAssets ==
    IF op = "erome_gallery"
    THEN {u \in UNION {Range(fetch_image_urls_parse(web.album[a].final, web.album[a].divs)) :
                         a \in {b \in Range(input) : Ok(web.album[b])}} :
            ~thumb_pattern(u)}
    ELSE IF op = "bunkr_gallery"
    THEN {u \in {Head(web.leaf[l].imgs) :
                   l \in {m \in BkServedLeafs : Ok(web.leaf[m]) /\ web.leaf[m].imgs # <<>>}} :
            u # <<>> /\ ~thumb_pattern(u) /\ Ok(web.asset[u])}
    ELSE LET refs == {tasks[i].ref : i \in 1..Len(tasks)}
             user == fapello_username(input)
         IN  UNION {Range(fapello_page_images(web.page[l].imgs, user))
                      \cup Range(fapello_page_videos(web.page[l].videos, user)) :
                      l \in {m \in refs : Ok(web.page[m])}}

(* The fan-out of the operation has begun (Fapello: after its main page).  *)
InFanOut == op \in FanOutOps /\ (op = "fapello" => tasks # <<>>)

(* C3: whatever fetches of a fan-out fail, by a non-2xx status or by a     *)
(* network-level failure, the aggregation raises no error and returns      *)
(* every asset of the references whose fetches succeeded.                  *)
C3_FaultTolerance ==
    InFanOut =>
        /\ outcome # "raised"
        /\ Returned_ => SucceededAssets \subseteq ReturnedAssets

(* The part of C3 that the code keeps: a fan-out that returns holds every  *)
(* asset of the references that succeeded.                                 *)
BestEffortComplete ==
    (InFanOut /\ Returned_) => SucceededAssets \subseteq ReturnedAssets

(* What the pages a walker has requested so far yield, when served.        *)
WalkedResults ==
    IF op = "erome_albums"
    THEN UNION {extract_album_links(ErSearchAt(p).anchors) :
                  p \in {q \in Range(log) : Ok(ErSearchAt(q)) /\ ErSearchAt(q).text}}
    ELSE IF op = "bunkr_albums"
    THEN UNION {Range(get_album_links_from_search(BkSearchAt(p)).val) :
                  p \in {q \in Range(log) : Ok(BkSearchAt(q))}}
    ELSE UNION {current_page_media(web.page[p].imgs) :
                  p \in {q \in Range(log) : Ok(web.page[q])}}

(* C4: a walker never raises on a failed page fetch, be it a non-2xx       *)
(* status or a network-level failure: it ends returning what the earlier   *)
(* pages yielded.                                                          *)
C4_WalkerNeverRaises ==
    op \in WalkerOps =>
        /\ outcome # "raised"
        /\ (pc = "done") => (Returned_ /\ Range(result) = WalkedResults)

(* The album references of search page p, read off the page: the n-th      *)
(* anchor to an album with the n-th title.                                 *)
BkPageEntries(p) ==
    LET r == BkSearchAt(p)
        links == SelectSeq(r.hrefs, LAMBDA h : Len(h) > 2 /\ h[1] = "bunkr.cr" /\ h[2] = "a")
        n == IF Len(links) < Len(r.titles) THEN Len(links) ELSE Len(r.titles)
    IN  [i \in 1..n |-> [url |-> links[i], title |-> r.titles[i]]]

(* Page p of the Bunkr search ends the walk: it is not served, has no      *)
(* albums, or has no control to page p + 1.                                *)
BkStopsAt(p) ==
    \/ ~Ok(BkSearchAt(p))
    \/ BkPageEntries(p) = <<>>
    \/ (p + 1) \notin BkSearchAt(p).next

(* C5: the Bunkr walker requests no page after the first page k that has   *)
(* no albums or no next-page control, and when it returns it has consumed  *)
(* exactly the pages 1..k.                                                 *)
C5_BunkrPaginationTermination ==
    op = "bunkr_albums" =>
        /\ \A i \in 1..Len(log) : \A q \in 1..(log[i] - 1) : ~BkStopsAt(q)
        /\ Returned_ => (BkStopsAt(page) /\ Range(log) = 1..page)

(* C5 witness: the walk returned at the third page, after two pages that   *)
(* had albums and a next-page control.                                     *)
C5_Witness ==
    /\ op = "bunkr_albums" /\ Returned_
    /\ page = 3 /\ Range(log) = 1..3
    /\ ~BkStopsAt(1) /\ ~BkStopsAt(2)

(* The assets of a JPG-host page as the walker reads them.                 *)
JpMedia(u) == IF Ok(web.page[u]) THEN current_page_media(web.page[u].imgs) ELSE {}

(* The i-th request of the JPG-host walker found only assets that the      *)
(* requests before it had already gathered.                                *)
JpStallAt(i) ==
    /\ Ok(web.page[log[i]])
    /\ JpMedia(log[i]) # {}
    /\ JpMedia(log[i]) \subseteq UNION {JpMedia(log[j]) : j \in 1..(i - 1)}

(* C6: the JPG-host walker ends at a page whose assets are all already in  *)
(* the accumulated set: no page is requested after it, whatever its        *)
(* next-page control.                                                      *)
C6_StallDetection ==
    op = "jpg5" => \A i \in 1..Len(log) : JpStallAt(i) => i = Len(log) /\ pc # "start"

(* C6 witness: the walker returned at a second page that stalled although  *)
(* it carries a next-page control.                                         *)
C6_Witness ==
    /\ op = "jpg5" /\ Returned_ /\ Len(log) = 2
    /\ JpStallAt(2) /\ web.page[log[2]].next # <<>>
    /\ JpMedia(log[2]) # JpMedia(log[1])

(* C10: in the Erome walker no search page is requested after a page from  *)
(* which extract_album_links yields nothing.                               *)
C10_EromeStopsOnEmptyPage ==
    op = "erome_albums" =>
        \A i \in 1..(Len(log) - 1) :
            ~ErSearchAt(log[i]).fails /\ extract_album_links(ErSearchAt(log[i]).anchors) # {}
(* The part of C4 that the code keeps: a walker that returns, returns what *)
(* the pages it requested yielded.                                         *)
WalkerReturnsAccumulated ==
    (op \in WalkerOps /\ Returned_) => Range(result) = WalkedResults
(* Pages 1..k are served and yield albums; all but page k carry the        *)
(* control to the next page.                                               *)
C7_Fixture(k) ==
    \A p \in 1..k :
        /\ Ok(BkSearchAt(p))
        /\ BkPageEntries(p) # <<>>
        /\ ((p + 1) \in BkSearchAt(p).next) <=> (p < k)

(* C7: for search pages 1..k that all yield albums, where all but page k   *)
(* carry a next-page control, the Bunkr walker returns exactly the         *)
(* concatenation, in page order, of the pages' album references, the n-th  *)
(* link of a page paired with its n-th title.                              *)
C7_BunkrListAlbums ==
    (op = "bunkr_albums" /\ pc = "done") =>
        \A k \in 1..LastPage :
            C7_Fixture(k) =>
                /\ Returned_
                /\ result = Flatten([p \in 1..k |-> BkPageEntries(p)])

(* C7 witness: two albums and a next control, then one album and no next   *)
(* control, returned as three entries.                                     *)
C7_Witness ==
    /\ op = "bunkr_albums" /\ Returned_
    /\ C7_Fixture(2)
    /\ Len(BkPageEntries(1)) = 2 /\ Len(BkPageEntries(2)) = 1
    /\ Len(result) = 3

(* The sub-pages the Fapello fan-out runs over, read off the main page.    *)
FpRefs ==
    LET links == Range(fapello_links(input, web.page[input].final, web.page[input].hrefs))
    IN  IF links = {} THEN {input} ELSE links

(* What a fan-out returns as a function of the responses alone.            *)
C8_Expected ==
    IF op = "erome_gallery"
    THEN {u \in UNION {Range(fetch_image_urls_parse(web.album[a].final, web.album[a].divs)) :
                         a \in {b \in Range(input) : ~web.album[b].fails}} :
            ~thumb_pattern(u)}
    ELSE IF op = "bunkr_gallery"
    THEN SucceededAssets
    ELSE LET user == fapello_username(input)
         IN  UNION {Range(fapello_page_images(web.page[l].imgs, user))
                      \cup Range(fapello_page_videos(web.page[l].videos, user)) :
                      l \in {m \in FpRefs : Ok(web.page[m])}}

(* C8: against static responses the set of asset URLs a fan-out returns is *)
(* the same for every completion order of its tasks: it is a function of   *)
(* the responses.                                                          *)
C8_ScheduleIndependence ==
    (InFanOut /\ Returned_) => ReturnedAssets = C8_Expected

(* C8 witness: a fan-out returned two or more assets after a task had      *)
(* finished before one created earlier.                                    *)
C8_Witness ==
    /\ InFanOut /\ Returned_ /\ inverted
    /\ Cardinality(ReturnedAssets) >= 2

(* The tasks in progress are the validations of the Bunkr candidates.      *)
Validating == op = "bunkr_gallery" /\ tasks # <<>> /\ tasks[1].ref \in BkAssets

(* C9: every URL the Bunkr aggregation returns is a candidate whose        *)
(* existence check answered with a success status; a candidate whose check *)
(* fails or answers otherwise is absent; validate_url never raises.        *)
C9_AssetValidation ==
    op = "bunkr_gallery" =>
        /\ Returned_ =>
              \A u \in Range(result) :
                  /\ \E i \in 1..Len(tasks) : tasks[i].ref = u
                  /\ ~web.asset[u].fails
                  /\ web.asset[u].st \in 200..299
        /\ Validating => \A i \in 1..Len(tasks) : tasks[i].done => ~tasks[i].out.exc

(* C9 witness: a returned list that keeps one candidate and lacks another, *)
(* whose check failed at the network level or answered 404.                *)
C9_Witness ==
    /\ op = "bunkr_gallery" /\ Returned_ /\ result # <<>>
    /\ \E i \in 1..Len(tasks) :
          /\ web.asset[tasks[i].ref].fails \/ web.asset[tasks[i].ref].st = 404
          /\ tasks[i].ref \notin Range(result)
(* Search page p of Erome is served and yields album links.                *)
ErYields(p) ==
    /\ Ok(ErSearchAt(p)) /\ ErSearchAt(p).text
    /\ extract_album_links(ErSearchAt(p).anchors) # {}

(* Search page p of Bunkr is served and yields albums.                     *)
BkYields(p) == Ok(BkSearchAt(p)) /\ BkPageEntries(p) # <<>>

(* C11: a walker has no upper bound on the number of pages: when the       *)
(* source returns results for pages 1..N (with the control to the next     *)
(* page where the source uses one), for any N, N = 11 included, the walker *)
(* requests all N pages and returns the results of every one of them.      *)
C11_ExhaustiveCrawl ==
    /\ (op = "erome_albums" /\ Returned_) =>
           \A n \in 1..(max_pages + 1) :
               (\A p \in 1..n : ErYields(p)) =>
                   /\ 1..n \subseteq Range(log)
                   /\ \A p \in 1..n :
                          extract_album_links(ErSearchAt(p).anchors) \subseteq Range(result)
    /\ (op = "bunkr_albums" /\ Returned_) =>
           \A n \in 1..(LastPage + 1) :
               (\A p \in 1..n : BkYields(p) /\ (p < n => (p + 1) \in BkSearchAt(p).next)) =>
                   /\ 1..n \subseteq Range(log)
                   /\ \A p \in 1..n : Range(BkPageEntries(p)) \subseteq Range(result)

(* The part of C11 that the code keeps: the Bunkr walker is exhaustive.    *)
BunkrExhaustive ==
    op = "bunkr_albums" => C11_ExhaustiveCrawl

(* C12: in get_all_album_links_from_search a walker step fetches the       *)
(* search URL of its page once: no search page is requested twice.         *)
C12_SingleFetchPerPage ==
    op = "bunkr_albums" => NoDup(log)
(* A request of the Bunkr aggregation is issued in this step.              *)
BkRequests(urls) ==
    /\ op = "bunkr_gallery" /\ Len(log') > Len(log)
    /\ log'[Len(log')] \in urls

(* The join barriers of the Bunkr aggregation: a leaf page is requested    *)
(* only after every album page was answered, a validation only after       *)
(* every leaf task has finished.                                           *)
BunkrJoinBarriers ==
    [][/\ BkRequests(BkLeafs) => page > Len(input)
       /\ BkRequests(BkAssets) =>
              (pc = "leafs" /\ \A i \in 1..Len(tasks) : tasks[i].done)]_vars

(* One task per reference is launched when a round begins: once a first    *)
(* album page is requested, every album page is.                           *)
BunkrRoundsLaunchAll ==
    (op = "bunkr_gallery" /\ log # <<>>) =>
        /\ Len(log) >= Len(input)
        /\ \A i \in 1..Len(input) : log[i] = input[i].url
        /\ pc \in {"leafs", "validate"} => \A i \in 1..Len(tasks) : tasks[i].ref \in Range(log)

(* C13: the Bunkr aggregation runs two fan-out rounds with join barriers:  *)
(* no leaf page is requested before every album fetch has completed, no    *)
(* validation before every leaf fetch has completed, and within a round    *)
(* one concurrent task is launched per reference.                          *)
C13_TwoFanOutRounds == BunkrJoinBarriers /\ []BunkrRoundsLaunchAll

(* C14: in the Bunkr aggregation every distinct leaf-page URL is fetched   *)
(* at most once and every distinct candidate is validated at most once.    *)
C14_NoRedundantFetches ==
    op = "bunkr_gallery" => NoDup(log)

(* The walkers whose cursor is a page number.                              *)
PageWalkers == {"erome_albums", "bunkr_albums"}

(* Everything page p contributes to the walker's accumulator.              *)
PageResults(p) ==
    IF op = "erome_albums"
    THEN extract_album_links(ErSearchAt(p).anchors)
    ELSE Range(BkPageEntries(p))

AccumulatedSet == IF op = "erome_albums" THEN acc ELSE Range(acc)

(* The requests so far are pages 1, 2, 3, ... in order and without gaps,   *)
(* none of them ahead of the cursor, and every page behind the cursor has  *)
(* been answered and merged.                                               *)
WalkInOrder ==
    op \in PageWalkers =>
        /\ page >= 1
        /\ log # <<>> => log[1] = 1
        /\ \A i \in 1..(Len(log) - 1) : log[i + 1] \in {log[i], log[i] + 1}
        /\ \A i \in 1..Len(log) : log[i] <= page
        /\ \A p \in 1..(page - 1) :
              /\ p \in Range(log)
              /\ PageResults(p) \subseteq AccumulatedSet

(* The cursor stays or moves forward by exactly one, and a request is for  *)
(* the page the cursor is on.                                              *)
CursorSteps ==
    [][(op \in PageWalkers) =>
          (/\ page' \in {page, page + 1}
           /\ Len(log') > Len(log) => log'[Len(log')] = page)]_vars

(* C15: the pagination walker is strictly sequential with a monotone       *)
(* cursor: the cursor starts at page 1 and only ever increases by exactly  *)
(* 1, pages are requested in the order 1, 2, 3, ... without gaps, and page *)
(* p + 1 is requested only after the response for page p was received and  *)
(* parsed.                                                                 *)
C15_SequentialMonotoneCursor == []WalkInOrder /\ CursorSteps

(* A walk that has reached its third page, for either walker.              *)
C15_Witness ==
    /\ op \in PageWalkers /\ page = 3
    /\ log # <<>> /\ log[Len(log)] = 3
    /\ AccumulatedSet # {}
(* The prefix every Fapello content URL starts with.                       *)
FapelloContent == <<"fapello.com", "content">>

(* C16: every URL returned by the Fapello aggregation, images and videos   *)
(* alike, starts with the Fapello content host prefix and contains the     *)
(* username as a path segment.                                             *)
C16_FapelloCrossUserExclusion ==
    (op = "fapello" /\ Returned_) =>
        \A u \in ReturnedAssets :
            /\ StartsWith(u, FapelloContent)
            /\ InPath(u, fapello_username(input))

(* The part that holds: every returned URL names the user in its path,     *)
(* and every returned image is under the content prefix.                   *)
FapelloUserInPath ==
    (op = "fapello" /\ Returned_) =>
        /\ \A u \in ReturnedAssets : InPath(u, fapello_username(input))
        /\ \A u \in Range(result.images) : StartsWith(u, FapelloContent)

(* C17: in every fan-out a reference whose fetch is answered with a        *)
(* non-2xx status contributes nothing to the result: what is returned      *)
(* comes from references that were served.                                 *)
C17_FailedReferenceContributesNothing ==
    (InFanOut /\ Returned_) => ReturnedAssets \subseteq SucceededAssets

(* The part that holds: the fan-outs that look at the status.              *)
StatusCheckedFanOuts ==
    (op \in {"bunkr_gallery", "fapello"} /\ Returned_) =>
        ReturnedAssets \subseteq SucceededAssets

(* C18: the album listing of a walker holds no two references with the     *)
(* same url.                                                               *)
C18_AlbumReferenceUniqueness ==
    /\ (op = "erome_albums" /\ Returned_) => NoDup(result)
    /\ (op = "bunkr_albums" /\ Returned_) =>
           \A i, j \in 1..Len(result) : result[i].url = result[j].url => i = j

(* The part that holds: the Erome walker accumulates in a set.             *)
EromeAlbumsUnique ==
    (op = "erome_albums" /\ Returned_) => NoDup(result)
(* Every step that can be taken is eventually taken: each request of an    *)
(* operation is awaited under the session timeout, so it is answered or    *)
(* fails, and the event loop then resumes the coroutine.                   *)
FairSpec == Spec /\ WF_vars(Next)

(* The distinct asset URLs the JPG-host source serves.                     *)
JpSourceAssets == UNION {JpMedia(u) : u \in JpPages}

(* The walker has fetched at most one page more than there are distinct    *)
(* assets, and at most one page more than it has gathered.                 *)
JpPagesBounded ==
    op = "jpg5" =>
        /\ Len(log) <= Cardinality(JpSourceAssets) + 1
        /\ Len(log) <= Cardinality(acc) + 1

(* C19: the JPG-host walker terminates for every source, also when the     *)
(* next-page controls form a cycle, and fetches at most as many pages as   *)
(* there are distinct asset URLs plus one.                                 *)
C19_Jpg5Termination ==
    /\ []JpPagesBounded
    /\ (op = "jpg5") ~> (pc = "done")

(* C19 witness: the walker returned after following a next-page control    *)
(* back to a page it had already fetched.                                  *)
C19_Witness ==
    /\ op = "jpg5" /\ Returned_
    /\ ~NoDup(log)
(* The handler of w will call active_connections.remove when its client    *)
(* disconnects: it is in the receive loop.                                 *)
WillRemove(w) ==
    \/ handler[w].pc = "receive"
    \/ handler[w].pc = "broadcast" /\ handler[w].after = "receive"

(* C20: under every interleaving of connects, disconnects and broadcasts   *)
(* a connection is still registered in active_connections when its own     *)
(* handler processes WebSocketDisconnect, so the removal never fails; no   *)
(* broadcast discards a connection whose handler will later remove it.     *)
C20_RegistryConsistency ==
    op = "ws" =>
        \A w \in Sockets :
            /\ handler[w].pc # "KeyError"
            /\ WillRemove(w) => w \in active_connections

(* The registry holds no connection whose handler has not begun or has     *)
(* gone past its removal.                                                  *)
RegistryHoldsLiveHandlers ==
    op = "ws" =>
        \A w \in active_connections : WillRemove(w)
====
